---- MODULE Spec2Model ----
(***************************************************************************)
(* MyDictionary (Terms): the request handlers of src/mydict.py over the    *)
(* `terms` table.                                                          *)
(*                                                                         *)
(* A Python str is modelled as the sequence of its Unicode code points, so *)
(* "あ" is <<12354>>.  The ten gojuon strings of get_terms are written out  *)
(* code point by code point; bucket names, which are only compared for     *)
(* equality, are transliterated ("あ行" is "a_gyo", "その他" is "sonota").   *)
(***************************************************************************)
EXTENDS FiniteSets, Integers, Sequences, TLC

VARIABLES
    store,      \* rows of table `terms`, in rowid order (the committed database)
    pc,         \* per request worker: the position inside its handler
    handler,    \* per request worker: the endpoint it is serving
    item,       \* add_term's parameter `item` (TermCreate)
    term_id,    \* get_term's parameter `term_id`
    keyword,    \* the query parameter (`q`) a GET /terms request carries
    session,    \* the SessionLocal() object of the request: none / open / closed
    terms,      \* the rows the handler holds: `terms` (get_terms, show_terms_page),
                \* `term` (add_term) or `t` (get_term)
    response    \* what the request sent back: status, exception, body

vars == <<store, pc, handler, item, term_id, keyword, session, terms, response>>

-----------------------------------------------------------------------------
(* Bounds *)

\* The handlers stop accepting new Terms once the table holds MaxTerms rows.
MaxTerms == 2

-----------------------------------------------------------------------------
(* Values *)

\* Python's None: distinct from every str, since no code point is negative.
None == <<-1>>

\* The two request workers whose handlers may interleave.
Procs == {"w1", "w2"}

Min(a, b) == IF a < b THEN a ELSE b

\* Python's (and SQLite's BINARY collation's) str order: code point by code
\* point, a proper prefix first.
StrLess(a, b) ==
    \E i \in 1..(Min(Len(a), Len(b)) + 1) :
        /\ \A k \in 1..(i - 1) : a[k] = b[k]
        /\ \/ i > Len(a) /\ i <= Len(b)
           \/ i <= Len(a) /\ i <= Len(b) /\ a[i] < b[i]

\* `c in s` for a one-character c.
In(c, s) == \E i \in DOMAIN s : s[i] = c

\* The words, readings and descriptions requests are made with.
Yama == <<23665>>                 \* 山
Kawa == <<24029>>                 \* 川
Inu == <<29356>>                  \* 犬
Words == {Yama, Kawa, Inu}
SpecReadings == {None, <<12420, 12414>>}                  \* absent, やま
Descriptions == {<<97>>}                                  \* a
ImageUrls == {None}

TermCreate(Ws, Rs) ==
    [word : Ws, reading : Rs, description : Descriptions, image_url : ImageUrls]

NoItem == [word |-> <<>>, reading |-> None, description |-> <<>>, image_url |-> None]

NoResponse == [status |-> 0, exc |-> "", body |-> <<>>]

\* An exception that is no HTTPException leaves the handler and reaches the
\* client as 500 Internal Server Error.
ServerError(e) == [status |-> 500, exc |-> e, body |-> <<>>]

HTTPException(code, detail) == [status |-> code, exc |-> "HTTPException", body |-> detail]

Ok(body) == [status |-> 200, exc |-> "", body |-> body]

-----------------------------------------------------------------------------
(* The table `terms` *)

\* Column id: INTEGER PRIMARY KEY, assigned by SQLite as the largest rowid + 1.
MaxId(rows) ==
    IF rows = <<>> THEN 0
    ELSE CHOOSE m \in {rows[i].id : i \in DOMAIN rows} :
             \A i \in DOMAIN rows : rows[i].id <= m

\* The row an INSERT of `it` creates.
Term(rows, it) ==
    [id |-> MaxId(rows) + 1, word |-> it.word, reading |-> it.reading,
     description |-> it.description, image_url |-> it.image_url]

\* Column word is declared unique=True: the INSERT of a word that a row already
\* has violates the constraint.
UniqueViolationNever(rows, word) == FALSE

UniqueViolation(rows, word) == \E i \in DOMAIN rows : rows[i].word = word

\* session.query(Term).filter(Term.word == word).first(), as the truth value
\* the handler tests.
ExistingNever(rows, word) == FALSE

Existing(rows, word) == \E i \in DOMAIN rows : rows[i].word = word

-----------------------------------------------------------------------------
(* Requests *)

Free(p) == pc[p] \in {"idle", "done"}

\* A free worker takes a new request: fresh parameters, a new session, no response.
Begin(p, h, it, id, q, at) ==
    /\ pc' = [pc EXCEPT ![p] = at]
    /\ handler' = [handler EXCEPT ![p] = h]
    /\ item' = [item EXCEPT ![p] = it]
    /\ term_id' = [term_id EXCEPT ![p] = id]
    /\ keyword' = [keyword EXCEPT ![p] = q]
    /\ session' = [session EXCEPT ![p] = "open"]
    /\ terms' = [terms EXCEPT ![p] = <<>>]
    /\ response' = [response EXCEPT ![p] = NoResponse]
    /\ UNCHANGED store

\* A step inside a handler that sets the response and moves on.
Goto(p, at, resp) ==
    /\ pc' = [pc EXCEPT ![p] = at]
    /\ response' = [response EXCEPT ![p] = resp]

\* `finally: session.close()`, after which the response (or the exception) goes out.
Close(p) ==
    /\ session' = [session EXCEPT ![p] = "closed"]
    /\ pc' = [pc EXCEPT ![p] = "done"]
    /\ UNCHANGED <<store, handler, item, term_id, keyword, terms, response>>

-----------------------------------------------------------------------------
(* POST /add_term *)

\* " を追加しました。"
Added == <<32, 12434, 36861, 21152, 12375, 12414, 12375, 12383, 12290>>

\* "その用語は既に存在します。"
AlreadyExists ==
    <<12381, 12398, 29992, 35486, 12399, 26082, 12395, 23384, 22312, 12375,
      12414, 12377, 12290>>

\* session = SessionLocal()
AddTermOpen(p, Items) ==
    /\ Free(p)
    /\ Len(store) < MaxTerms
    /\ \E it \in Items : Begin(p, "add_term", it, 0, None, "add_query")

\* existing = session.query(...).first(); if existing: raise HTTPException(400)
AddTermQuery(p) ==
    /\ pc[p] = "add_query"
    /\ \/ Goto(p, "add_finally", ServerError("OperationalError"))
       \/ /\ Existing(store, item[p].word)
          /\ Goto(p, "add_finally", HTTPException(400, AlreadyExists))
       \/ /\ ~Existing(store, item[p].word)
          /\ Goto(p, "add_commit", NoResponse)
    /\ UNCHANGED <<store, handler, item, term_id, keyword, session, terms>>

\* term = Term(...); session.add(term); session.commit()
AddTermCommit(p) ==
    /\ pc[p] = "add_commit"
    /\ \/ /\ Goto(p, "add_finally", ServerError("OperationalError"))
          /\ UNCHANGED <<store, terms>>
       \/ /\ UniqueViolation(store, item[p].word)
          /\ Goto(p, "add_finally", ServerError("IntegrityError"))
          /\ UNCHANGED <<store, terms>>
       \/ /\ ~UniqueViolation(store, item[p].word)
          /\ store' = Append(store, Term(store, item[p]))
          /\ terms' = [terms EXCEPT ![p] = <<Term(store, item[p])>>]
          /\ Goto(p, "add_refresh", NoResponse)
    /\ UNCHANGED <<handler, item, term_id, keyword, session>>

\* session.refresh(term); return {"message": ..., "id": term.id}
AddTermRefresh(p) ==
    /\ pc[p] = "add_refresh"
    /\ \/ Goto(p, "add_finally", ServerError("OperationalError"))
       \/ Goto(p, "add_finally",
               Ok([message |-> terms[p][1].word \o Added, id |-> terms[p][1].id]))
    /\ UNCHANGED <<store, handler, item, term_id, keyword, session, terms>>

\* finally: session.close()
AddTermFinally(p) ==
    /\ pc[p] = "add_finally"
    /\ Close(p)

-----------------------------------------------------------------------------
(* GET /terms *)

\* terms = session.query(Term).all()
QueryAll(rows) == rows

\* The if/elif chain of get_terms over term.reading.
groupPlainKana(reading) ==
    IF reading = None \/ reading = <<>> THEN "sonota"
    ELSE LET first_char == reading[1] IN
         IF In(first_char, <<12354, 12356, 12358, 12360, 12362>>) THEN "a_gyo"
         ELSE IF In(first_char, <<12363, 12365, 12367, 12369, 12371>>) THEN "ka_gyo"
         ELSE IF In(first_char, <<12373, 12375, 12377, 12379, 12381>>) THEN "sa_gyo"
         ELSE IF In(first_char, <<12383, 12385, 12388, 12390, 12392>>) THEN "ta_gyo"
         ELSE IF In(first_char, <<12394, 12395, 12396, 12397, 12398>>) THEN "na_gyo"
         ELSE IF In(first_char, <<12399, 12402, 12405, 12408, 12411>>) THEN "ha_gyo"
         ELSE IF In(first_char, <<12414, 12415, 12416, 12417, 12418>>) THEN "ma_gyo"
         ELSE IF In(first_char, <<12420, 12422, 12424>>) THEN "ya_gyo"
         ELSE IF In(first_char, <<12425, 12426, 12427, 12428, 12429>>) THEN "ra_gyo"
         ELSE IF In(first_char, <<12431, 12434, 12435>>) THEN "wa_gyo"
         ELSE "sonota"

group(reading) ==
    IF reading = None \/ reading = <<>> THEN "sonota"         \* if not term.reading
    ELSE LET first_char == reading[1] IN
         \* あいうえお
         IF In(first_char, <<12354, 12356, 12358, 12360, 12362>>) THEN "a_gyo"
         \* かきくけこがぎぐげご
         ELSE IF In(first_char, <<12363, 12365, 12367, 12369, 12371,
                                  12364, 12366, 12368, 12370, 12372>>) THEN "ka_gyo"
         \* さしすせそざじずぜぞ
         ELSE IF In(first_char, <<12373, 12375, 12377, 12379, 12381,
                                  12374, 12376, 12378, 12380, 12382>>) THEN "sa_gyo"
         \* たちつてとだぢづでど
         ELSE IF In(first_char, <<12383, 12385, 12388, 12390, 12392,
                                  12384, 12386, 12389, 12391, 12393>>) THEN "ta_gyo"
         \* なにぬねの
         ELSE IF In(first_char, <<12394, 12395, 12396, 12397, 12398>>) THEN "na_gyo"
         \* はひふへほばびぶべぼぱぴぷぺぽ
         ELSE IF In(first_char, <<12399, 12402, 12405, 12408, 12411,
                                  12400, 12403, 12406, 12409, 12412,
                                  12401, 12404, 12407, 12410, 12413>>) THEN "ha_gyo"
         \* まみむめも
         ELSE IF In(first_char, <<12414, 12415, 12416, 12417, 12418>>) THEN "ma_gyo"
         \* やゆよ
         ELSE IF In(first_char, <<12420, 12422, 12424>>) THEN "ya_gyo"
         \* らりるれろ
         ELSE IF In(first_char, <<12425, 12426, 12427, 12428, 12429>>) THEN "ra_gyo"
         \* わをん
         ELSE IF In(first_char, <<12431, 12434, 12435>>) THEN "wa_gyo"
         ELSE "sonota"

\* The dict appended to a bucket: the Term without its id.
Entry(t) ==
    [word |-> t.word, reading |-> t.reading, description |-> t.description,
     image_url |-> t.image_url]

\* grouped[group].append({...})
Prepended(list, entry) == <<entry>> \o list

Appended(list, entry) == Append(list, entry)

\* The loop over `terms` filling the defaultdict `grouped`: a key exists once
\* something was appended under it.
RECURSIVE Grouping(_, _)
Grouping(ts, grouped) ==
    IF ts = <<>> THEN grouped
    ELSE LET g == group(Head(ts).reading)
             entry == Entry(Head(ts))
         IN  Grouping(Tail(ts),
                      IF g \in DOMAIN grouped
                      THEN [grouped EXCEPT ![g] = Appended(@, entry)]
                      ELSE grouped @@ (g :> Appended(<<>>, entry)))

orderWithoutSonota ==
    <<"a_gyo", "ka_gyo", "sa_gyo", "ta_gyo", "na_gyo", "ha_gyo", "ma_gyo",
      "ya_gyo", "ra_gyo", "wa_gyo">>

\* order = ["あ行","か行","さ行","た行","な行","は行","ま行","や行","ら行","わ行","その他"]
order ==
    <<"a_gyo", "ka_gyo", "sa_gyo", "ta_gyo", "na_gyo", "ha_gyo", "ma_gyo",
      "ya_gyo", "ra_gyo", "wa_gyo", "sonota">>

\* {g: grouped[g] for g in order if g in grouped}, a dict in insertion order:
\* the sequence of its (key, value) pairs.  Without the `if`, the defaultdict
\* makes an empty list for every key it is asked for.
sorted_grouped_all(grouped) ==
    [i \in 1..Len(order) |->
        [group |-> order[i],
         terms |-> IF order[i] \in DOMAIN grouped THEN grouped[order[i]] ELSE <<>>]]

sorted_grouped(grouped) ==
    LET Present(g) == g \in DOMAIN grouped
        keys == SelectSeq(order, Present)
    IN  [i \in 1..Len(keys) |-> [group |-> keys[i], terms |-> grouped[keys[i]]]]

\* session = SessionLocal(); the query parameter is no parameter of get_terms.
GetTermsOpen(p, Qs) ==
    /\ Free(p)
    /\ \E q \in Qs : Begin(p, "get_terms", NoItem, 0, q, "gts_query")

\* terms = session.query(Term).all(), the grouping loop, return sorted_grouped
GetTermsQuery(p) ==
    /\ pc[p] = "gts_query"
    /\ \/ /\ Goto(p, "gts_finally", ServerError("OperationalError"))
          /\ UNCHANGED terms
       \/ /\ terms' = [terms EXCEPT ![p] = QueryAll(store)]
          /\ Goto(p, "gts_finally", Ok(sorted_grouped(Grouping(QueryAll(store), <<>>))))
    /\ UNCHANGED <<store, handler, item, term_id, keyword, session>>

\* finally: session.close()
GetTermsFinally(p) ==
    /\ pc[p] = "gts_finally"
    /\ Close(p)

-----------------------------------------------------------------------------
(* GET /term/{term_id} *)

\* session.get(Term, term_id): the rows with that primary key, none or one.
GetZeroBased(rows, id) ==
    LET HasId(r) == r.id = id + 1
    IN  SelectSeq(rows, HasId)

Get(rows, id) ==
    LET HasId(r) == r.id = id
    IN  SelectSeq(rows, HasId)

TermOut(t) ==
    [id |-> t.id, word |-> t.word, reading |-> t.reading,
     description |-> t.description, image_url |-> t.image_url]

NotFound == <<84, 101, 114, 109, 32, 110, 111, 116, 32, 102, 111, 117, 110, 100>>

\* session = SessionLocal()
GetTermOpen(p) ==
    /\ Free(p)
    /\ \E id \in 1..(MaxTerms + 1) : Begin(p, "get_term", NoItem, id, None, "gt_query")

\* t = session.get(Term, term_id); if not t: raise HTTPException(404); return TermOut(...)
GetTermQuery(p) ==
    /\ pc[p] = "gt_query"
    /\ \/ /\ Goto(p, "gt_finally", ServerError("OperationalError"))
          /\ UNCHANGED terms
       \/ /\ Get(store, term_id[p]) = <<>>
          /\ Goto(p, "gt_finally", HTTPException(404, NotFound))
          /\ UNCHANGED terms
       \/ /\ Get(store, term_id[p]) # <<>>
          /\ terms' = [terms EXCEPT ![p] = Get(store, term_id[p])]
          /\ Goto(p, "gt_finally", Ok(TermOut(Get(store, term_id[p])[1])))
    /\ UNCHANGED <<store, handler, item, term_id, keyword, session>>

\* finally: session.close()
GetTermFinally(p) ==
    /\ pc[p] = "gt_finally"
    /\ Close(p)

-----------------------------------------------------------------------------
(* GET /web *)

\* ORDER BY terms.word: insertion of each row before the first row whose word
\* is greater.
RECURSIVE OrderByWord(_)
OrderByWord(rows) ==
    IF rows = <<>> THEN <<>>
    ELSE LET n == Len(rows)
             sorted == OrderByWord(SubSeq(rows, 1, n - 1))
             r == rows[n]
             k == Cardinality({i \in DOMAIN sorted : ~StrLess(r.word, sorted[i].word)})
         IN  SubSeq(sorted, 1, k) \o <<r>> \o SubSeq(sorted, k + 1, Len(sorted))

\* session = SessionLocal()
ShowTermsPageOpen(p) ==
    /\ Free(p)
    /\ Begin(p, "show_terms_page", NoItem, 0, None, "show_query")

\* terms = session.query(Term).order_by(Term.word).all(), outside any try: an
\* exception leaves the handler here.
ShowTermsPageQuery(p) ==
    /\ pc[p] = "show_query"
    /\ \/ /\ Goto(p, "done", ServerError("OperationalError"))
          /\ UNCHANGED terms
       \/ /\ terms' = [terms EXCEPT ![p] = OrderByWord(store)]
          /\ Goto(p, "show_close", NoResponse)
    /\ UNCHANGED <<store, handler, item, term_id, keyword, session>>

\* session.close(); return templates.TemplateResponse("index.html", {..., "terms": terms})
ShowTermsPageRender(p) ==
    /\ pc[p] = "show_close"
    /\ session' = [session EXCEPT ![p] = "closed"]
    /\ Goto(p, "done", Ok([template |-> "index.html", terms |-> terms[p]]))
    /\ UNCHANGED <<store, handler, item, term_id, keyword, terms>>

-----------------------------------------------------------------------------
(* Specifications *)

Keywords == {None, <<12420>>}                             \* no keyword, や

Init ==
    /\ store = <<>>
    /\ pc = [p \in Procs |-> "idle"]
    /\ handler = [p \in Procs |-> "none"]
    /\ item = [p \in Procs |-> NoItem]
    /\ term_id = [p \in Procs |-> 0]
    /\ keyword = [p \in Procs |-> None]
    /\ session = [p \in Procs |-> "none"]
    /\ terms = [p \in Procs |-> <<>>]
    /\ response = [p \in Procs |-> NoResponse]

\* Two workers serving requests to the four endpoints, one database call at a time.
Next ==
    \E p \in Procs :
        \/ AddTermOpen(p, TermCreate(Words, SpecReadings))
        \/ AddTermQuery(p)
        \/ AddTermCommit(p)
        \/ AddTermRefresh(p)
        \/ AddTermFinally(p)
        \/ GetTermsOpen(p, Keywords)
        \/ GetTermsQuery(p)
        \/ GetTermsFinally(p)
        \/ GetTermOpen(p)
        \/ GetTermQuery(p)
        \/ GetTermFinally(p)
        \/ ShowTermsPageOpen(p)
        \/ ShowTermsPageQuery(p)
        \/ ShowTermsPageRender(p)

Spec == Init /\ [][Next]_vars

-----------------------------------------------------------------------------
(* The listings over every table content *)

\* The tables that `n` successful add_term calls can leave behind.
RECURSIVE Stores(_, _)
Stores(Items, n) ==
    IF n = 0 THEN {<<>>}
    ELSE LET S == Stores(Items, n - 1)
         IN  S \cup UNION {{Append(rows, Term(rows, it)) :
                               it \in {i \in Items : ~Existing(rows, i.word)}} :
                           rows \in S}

\* Readings of every kind: absent, empty, " あ", あさひ, がく, さくら, やま, ん, ア.
ListingReadings ==
    {None, <<>>, <<32, 12354>>, <<12354, 12373, 12402>>, <<12364, 12367>>,
     <<12373, 12367, 12425>>, <<12420, 12414>>, <<12435>>, <<12450>>}

\* Every one-character reading: the hiragana block ぁ..ゖ, a space, ア, a.
OneCharReadings == {<<c>> : c \in (12353..12438) \cup {32, 12450, 97}}

ListingStores ==
    Stores(TermCreate(Words, ListingReadings), MaxTerms)
        \cup Stores(TermCreate({Yama}, OneCharReadings), 1)

ListingProcs == {"w1"}

InitListing ==
    /\ store \in ListingStores
    /\ pc = [p \in Procs |-> "idle"]
    /\ handler = [p \in Procs |-> "none"]
    /\ item = [p \in Procs |-> NoItem]
    /\ term_id = [p \in Procs |-> 0]
    /\ keyword = [p \in Procs |-> None]
    /\ session = [p \in Procs |-> "none"]
    /\ terms = [p \in Procs |-> <<>>]
    /\ response = [p \in Procs |-> NoResponse]

\* One worker serving the two listing endpoints over a table that does not change.
NextListing ==
    \E p \in ListingProcs :
        \/ GetTermsOpen(p, Keywords)
        \/ GetTermsQuery(p)
        \/ GetTermsFinally(p)
        \/ ShowTermsPageOpen(p)
        \/ ShowTermsPageQuery(p)
        \/ ShowTermsPageRender(p)

SpecListing == InitListing /\ [][NextListing]_vars

-----------------------------------------------------------------------------
(* Properties *)

\* Whether the table holds a Term with this word (exact, case-sensitive match).
WordStored(w) == \E i \in DOMAIN store : store[i].word = w

Finished(p, h) == handler[p] = h /\ pc[p] = "done"

\* C1: after any sequence of add_term calls, successful or failing, the table
\* holds at most one Term for each word.
C1_OneTermPerWord ==
    \A i, j \in DOMAIN store : store[i].word = store[j].word => i = j

\* Two Terms are stored and an add_term call has been refused as a duplicate.
C1_Witness ==
    /\ Len(store) >= 2
    /\ \E p \in Procs : Finished(p, "add_term") /\ response[p].status = 400

\* C2: an add_term call whose word is already stored ends as the Duplicate-word
\* error 400 (or as the server error of a failed duplicate query), and none of
\* its steps changes the table.
C2_DuplicateRejected ==
    [][\A p \in Procs :
          /\ (/\ handler[p] = "add_term"
              /\ pc[p] = "add_query"
              /\ WordStored(item[p].word)
              /\ pc'[p] # pc[p])
             => /\ store' = store
                /\ pc'[p] = "add_finally"
                /\ \/ response'[p].status = 400
                   \/ response'[p].exc = "OperationalError"
          /\ (/\ handler[p] = "add_term"
              /\ pc[p] = "add_finally"
              /\ response[p].status = 400
              /\ pc'[p] # pc[p])
             => /\ store' = store
                /\ pc'[p] = "done"
                /\ response'[p] = response[p]]_vars

\* An add_term call for a stored word has returned 400.
C2_Witness ==
    \E p \in Procs :
        /\ Finished(p, "add_term")
        /\ response[p].status = 400
        /\ WordStored(item[p].word)

\* C8: a handler that has returned, or let an exception out, has closed its session.
C8_SessionReleased ==
    \A p \in Procs : pc[p] = "done" => session[p] = "closed"

\* C9: get_term answers 404 exactly when no stored Term has the id, answers
\* with the fields of the Term that has it otherwise, and leaves the table as
\* it is (a failed lookup aside, which is a server error).
C9_GetTerm ==
    [][\A p \in Procs :
          /\ (/\ handler[p] = "get_term"
              /\ pc[p] = "gt_query"
              /\ pc'[p] # pc[p]
              /\ response'[p].exc # "OperationalError")
             => /\ store' = store
                /\ response'[p].status \in {200, 404}
                /\ response'[p].status = 404
                       <=> ~\E i \in DOMAIN store : store[i].id = term_id[p]
                /\ \A i \in DOMAIN store :
                       store[i].id = term_id[p]
                           => /\ response'[p].status = 200
                              /\ response'[p].body =
                                     [id |-> store[i].id,
                                      word |-> store[i].word,
                                      reading |-> store[i].reading,
                                      description |-> store[i].description,
                                      image_url |-> store[i].image_url]
          /\ (/\ handler[p] = "get_term"
              /\ pc[p] = "gt_finally"
              /\ pc'[p] # pc[p])
             => /\ store' = store
                /\ response'[p] = response[p]]_vars

\* One get_term call has ended 404 and another has returned the second Term.
C9_Witness ==
    \E p, q \in Procs :
        /\ Finished(p, "get_term") /\ response[p].status = 404
        /\ Finished(q, "get_term") /\ response[q].status = 200
        /\ response[q].body.id = 2

\* C10: of two add_term requests with the same word at most one reports
\* success, the table holds one Term for the word of a request that got past
\* its commit, and a request stopped by the uniqueness constraint reports no
\* success.
C10_ConcurrentAdd ==
    \A p, q \in Procs :
        (p # q /\ handler[p] = "add_term" /\ handler[q] = "add_term"
            /\ item[p].word = item[q].word)
        => /\ ~(response[p].status = 200 /\ response[q].status = 200)
           /\ ~(pc[p] = "add_refresh" /\ pc[q] = "add_refresh")
           /\ ~(pc[p] = "add_refresh" /\ response[q].status = 200)
           /\ (pc[p] = "add_refresh" \/ response[p].status = 200)
                 => Cardinality({i \in DOMAIN store : store[i].word = item[p].word}) = 1
           /\ response[p].exc = "IntegrityError"
                 => /\ response[p].status = 500
                    /\ Cardinality({i \in DOMAIN store :
                                       store[i].word = item[p].word}) = 1

\* Both requests passed their duplicate checks; one succeeded and the other
\* was stopped by the constraint.
C10_Witness ==
    \E p, q \in Procs :
        /\ p # q
        /\ Finished(p, "add_term") /\ Finished(q, "add_term")
        /\ item[p].word = item[q].word
        /\ response[p].status = 200
        /\ response[q].exc = "IntegrityError"

-----------------------------------------------------------------------------
(* Properties of the listings *)

\* The gojuon table: the characters of each row.
GojuonRows ==
    [a_gyo  |-> {12354, 12356, 12358, 12360, 12362},
     ka_gyo |-> {12363, 12364, 12365, 12366, 12367, 12368, 12369, 12370, 12371, 12372},
     sa_gyo |-> {12373, 12374, 12375, 12376, 12377, 12378, 12379, 12380, 12381, 12382},
     ta_gyo |-> {12383, 12384, 12385, 12386, 12388, 12389, 12390, 12391, 12392, 12393},
     na_gyo |-> {12394, 12395, 12396, 12397, 12398},
     ha_gyo |-> {12399, 12400, 12401, 12402, 12403, 12404, 12405, 12406, 12407,
                 12408, 12409, 12410, 12411, 12412, 12413},
     ma_gyo |-> {12414, 12415, 12416, 12417, 12418},
     ya_gyo |-> {12420, 12422, 12424},
     ra_gyo |-> {12425, 12426, 12427, 12428, 12429},
     wa_gyo |-> {12431, 12434, 12435}]

\* The fixed order of the eleven buckets.
CanonicalOrder ==
    <<"a_gyo", "ka_gyo", "sa_gyo", "ta_gyo", "na_gyo", "ha_gyo", "ma_gyo", "ya_gyo",
      "ra_gyo", "wa_gyo", "sonota">>

BucketNames == {CanonicalOrder[i] : i \in DOMAIN CanonicalOrder}

NoReading(r) == r = None \/ r = <<>>

\* The buckets the table allows for a reading.
TableBuckets(r) ==
    IF NoReading(r) \/ \A g \in DOMAIN GojuonRows : r[1] \notin GojuonRows[g]
    THEN {"sonota"}
    ELSE {g \in DOMAIN GojuonRows : r[1] \in GojuonRows[g]}

\* The Term as it appears in a bucket.
Listed(t) ==
    [word |-> t.word, reading |-> t.reading, description |-> t.description,
     image_url |-> t.image_url]

\* Worker p holds the answer of a get_terms call.
Grouped(p) == Finished(p, "get_terms") /\ response[p].status = 200

\* The places (bucket, position) of a Term in a grouped answer.
Places(body, t) ==
    {bk \in UNION {{<<b, k>> : k \in DOMAIN body[b].terms} : b \in DOMAIN body} :
        body[bk[1]].terms[bk[2]] = Listed(t)}

\* C3: get_terms puts every Term in exactly one of the eleven buckets, the one
\* the gojuon table gives for the first character of its reading, and in
\* "sonota" when it has no reading or the character is in no row.
C3_Classified ==
    \A p \in Procs :
        Grouped(p) =>
            /\ terms[p] = store
            /\ \A b \in DOMAIN response[p].body :
                   response[p].body[b].group \in BucketNames
            /\ \A i \in DOMAIN terms[p] :
                   /\ Cardinality(Places(response[p].body, terms[p][i])) = 1
                   /\ \A bk \in Places(response[p].body, terms[p][i]) :
                          TableBuckets(terms[p][i].reading)
                              = {response[p].body[bk[1]].group}

\* A Term with a reading ("ア" or " あ") is in "sonota", beside a Term in a row.
C3_Witness ==
    \E p \in Procs :
        /\ Grouped(p)
        /\ Len(response[p].body) = 2
        /\ response[p].body[2].group = "sonota"
        /\ ~NoReading(response[p].body[2].terms[1].reading)

\* C4: the keys of the answer of get_terms are the buckets that received a
\* Term, in the fixed order; no key has an empty list; an empty table gives
\* an empty mapping.
C4_BucketOrder ==
    \A p \in Procs :
        Grouped(p) =>
            LET body == response[p].body
                Received(g) == \E i \in DOMAIN terms[p] :
                                   g \in TableBuckets(terms[p][i].reading)
                keys == SelectSeq(CanonicalOrder, Received)
            IN  /\ Len(body) = Len(keys)
                /\ \A b \in DOMAIN body :
                       body[b].group = keys[b] /\ body[b].terms # <<>>
                /\ store = <<>> => body = <<>>

\* An answer with two buckets.
C4_Witness ==
    \E p \in Procs :
        /\ Grouped(p)
        /\ Len(response[p].body) = 2
        /\ response[p].body[1].group # "a_gyo"

\* C5: each bucket lists the Terms classified into it in the order of the
\* table, and every Term is listed once.
C5_StoreOrder ==
    \A p \in Procs :
        Grouped(p) =>
            LET body == response[p].body
                listing == [i \in DOMAIN store |-> Listed(store[i])]
            IN  /\ \A b \in DOMAIN body :
                       LET InBucket(e) == body[b].group \in TableBuckets(e.reading)
                       IN  body[b].terms = SelectSeq(listing, InBucket)
                /\ \A i \in DOMAIN store :
                       Cardinality(Places(body, store[i])) = 1

\* A bucket that holds two Terms.
C5_Witness ==
    \E p \in Procs :
        /\ Grouped(p)
        /\ \E b \in DOMAIN response[p].body : Len(response[p].body[b].terms) = 2

\* str.strip(): without the whitespace at both ends.
IsSpace(c) == c \in {9, 10, 11, 12, 13, 32, 12288}

RECURSIVE LStrip(_)
LStrip(s) == IF s # <<>> /\ IsSpace(Head(s)) THEN LStrip(Tail(s)) ELSE s

RECURSIVE RStrip(_)
RStrip(s) ==
    IF s # <<>> /\ IsSpace(s[Len(s)]) THEN RStrip(SubSeq(s, 1, Len(s) - 1)) ELSE s

Trim(s) == RStrip(LStrip(s))

\* The derived sort key: the trimmed reading if there is one, else the word.
DerivedKey(t) ==
    IF t.reading # None /\ Trim(t.reading) # <<>> THEN Trim(t.reading) ELSE t.word

\* C6: the flat listing holds all stored Terms in ascending order of the
\* derived sort key.
C6_SortedByDerivedKey ==
    \A p \in Procs :
        (Finished(p, "show_terms_page") /\ response[p].status = 200) =>
            LET listed == response[p].body.terms
            IN  /\ Len(listed) = Len(store)
                /\ \A i \in DOMAIN store : \E k \in DOMAIN listed : listed[k] = store[i]
                /\ \A i, j \in DOMAIN listed :
                       i < j => ~StrLess(DerivedKey(listed[j]), DerivedKey(listed[i]))

\* Lower case of the ASCII letters.
Lower(s) == [i \in DOMAIN s |-> IF s[i] \in 65..90 THEN s[i] + 32 ELSE s[i]]

Substring(k, s) ==
    \E i \in 0..(Len(s) - Len(k)) : \A j \in DOMAIN k : s[i + j] = k[j]

\* The keyword is, case-insensitively, a substring of word, reading or description.
Matches(k, t) ==
    \/ Substring(Lower(k), Lower(t.word))
    \/ Substring(Lower(k), Lower(IF t.reading = None THEN <<>> ELSE t.reading))
    \/ Substring(Lower(k), Lower(t.description))

\* The Terms of a grouped answer.
Answered(body) ==
    UNION {{body[b].terms[k] : k \in DOMAIN body[b].terms} : b \in DOMAIN body}

\* C7: with a keyword, the answer of GET /terms holds exactly the
\* Terms the keyword matches.
C7_KeywordFilters ==
    \A p \in Procs :
        (Grouped(p) /\ keyword[p] # None) =>
            Answered(response[p].body)
                = {Listed(store[i]) : i \in {k \in DOMAIN store : Matches(keyword[p], store[k])}}

\* C7, for a get_terms that takes no keyword: with or without a keyword the
\* answer holds every stored Term.
C7_KeywordIgnored ==
    \A p \in Procs :
        Grouped(p) =>
            Answered(response[p].body) = {Listed(store[i]) : i \in DOMAIN store}

\* A request with keyword "や" was answered with a Term the keyword does not
\* match, beside one it matches.
C7_Witness ==
    \E p \in Procs :
        /\ Grouped(p)
        /\ keyword[p] # None
        /\ \E i, j \in DOMAIN store :
               /\ Matches(keyword[p], store[i]) /\ ~Matches(keyword[p], store[j])
               /\ Listed(store[j]) \in Answered(response[p].body)

====
